---- MODULE Spec2Model ----
(***************************************************************************)
(* Model of scripts/cfRegTest.py: the Cloudflare IP performance tester.    *)
(*                                                                         *)
(* One run of CloudflareIPTester.run_tests is a sequential state machine:  *)
(*   read -> ping (one step per pool entry) -> rank -> fetch ->            *)
(*   test (one step per ranked entry) -> returned | failed                 *)
(* The network is the environment: every probe draws its response from a   *)
(* small set of responses the libraries (ping3, requests) can produce.     *)
(* main wraps the run: run_tests, then export_results or the re-raise of   *)
(* a fatal error (SpecMain); get_region_from_colo is also checked on its   *)
(* own over small tables (SpecRegion).                                     *)
(*                                                                         *)
(* Units: times are microseconds, latencies are milliseconds (int), speeds *)
(* are hundredths of a Mbps (the code rounds them to 2 decimals).          *)
(* Strings that the code edits character by character (region names) are  *)
(* sequences of one-character strings.                                     *)
(***************************************************************************)
EXTENDS Integers, Sequences, FiniteSets, TLC

VARIABLES
    PING_AVAILABLE,   \* module flag set by the import of ping3 (lines 25-29)
    config,           \* the tester's configuration fields (lines 76-83)
    file,             \* the lines of the file config.ip_file names
    frozen,           \* the environment: free, or one frozen response per IP
    run,              \* which run of run_tests this is (1 or 2)
    prev,             \* outcome of the previous run under the same inputs
    pc,               \* position in run_tests
    failure,          \* message of the exception that ended the run, or ""
    ip_list,          \* run_tests: the candidate pool after read and shuffle
    order,            \* history: order[j] = index in read_ips' list of ip_list[j]
    i,                \* filter_ips_by_ping: index of the next pool entry
    ip_ping_results,  \* filter_ips_by_ping: the eligible (ip, ping) so far
    ranked,           \* run_tests: filtered_ip_ping_results
    colo_data,        \* run_tests: the region table
    k,                \* run_tests: index of the next ranked entry
    successful_ips,   \* run_tests: the result list
    fates,            \* history: how each ranked entry left the loop body
    log,              \* history: every probe call, in the order issued
    main,             \* position in main
    output,           \* the file config.output_file names
    lookup            \* one call of get_region_from_colo: arguments and result

vars == <<PING_AVAILABLE, config, file, frozen, run, prev, pc, failure, ip_list,
          order, i, ip_ping_results, ranked, colo_data, k, successful_ips,
          fates, log, main, output, lookup>>

(***************************************************************************)
(* Bounds of the model                                                     *)
(***************************************************************************)
\* the longest candidate file, in lines
MaxPool == 2

Min(a, b) == IF a < b THEN a ELSE b
Max(a, b) == IF a > b THEN a ELSE b
Range(s) == {s[j] : j \in DOMAIN s}

(***************************************************************************)
(* Strings                                                                 *)
(***************************************************************************)
\* "Europe", "North America", "Asia Pacific", "Unknown", one letter a word
Europe == <<"E">>
\* 'Europe, ', the first element of the default of regions (line 81)
Europe_default == <<"E", ",", " ">>
North_America_raw == <<"N", " ", "A">>
Asia_Pacific_raw == <<"A", " ", "P">>
Asia_Pacific == <<"A", "_", "P">>
Unknown == <<"U">>

\* str.replace(" ", "_")
replace_spaces(s) == [j \in DOMAIN s |-> IF s[j] = " " THEN "_" ELSE s[j]]

\* Optional[str]
None == [tag |-> "None", s |-> ""]
Str(s) == [tag |-> "str", s |-> s]
\* Python truthiness of an Optional[str]: None and "" are falsy
Truthy(o) == o.tag = "str" /\ o.s # ""

(***************************************************************************)
(* Candidate file: read_ips and validate_ip                                *)
(***************************************************************************)
\* the lines a candidate file is made of, as read (newline included)
FileLines == {"1.1.1.1\n", "8.8.8.8\n", "bad-ip\n"}

\* str.strip() on the lines above
strip(line) ==
    CASE line = "1.1.1.1\n" -> "1.1.1.1"
      [] line = "8.8.8.8\n" -> "8.8.8.8"
      [] line = "bad-ip\n" -> "bad-ip"
      [] OTHER -> line

\* the stripped lines ipaddress.ip_address accepts
IPs == {"1.1.1.1", "8.8.8.8"}

validate_ip(ip) == ip \in IPs

RECURSIVE read_lines(_)
\* the list comprehension of read_ips: strip, drop blank and invalid lines
read_lines(f) ==
    IF f = <<>> THEN <<>>
    ELSE LET ip == strip(Head(f))
         IN  IF ip # "" /\ validate_ip(ip)
             THEN <<ip>> \o read_lines(Tail(f))
             ELSE read_lines(Tail(f))

\* read_ips: raises when no valid address is left
read_ips(f) ==
    LET ips == read_lines(f)
    IN  [exc |-> ips = <<>>, val |-> ips]

\* the orders random.shuffle can leave a list of n entries in
Shuffles(n) == {p \in [1..n -> 1..n] : \A a, b \in 1..n : p[a] = p[b] => a = b}

(***************************************************************************)
(* Floats: the arithmetic of Python's float (IEEE 754 double), exact       *)
(***************************************************************************)
\* A natural number of any size is the sequence of its digits in base
\* 2^15 = 32768, the lowest first, with no leading 0; <<>> is 0.
RECURSIVE Big(_)
Big(n) == IF n = 0 THEN <<>> ELSE <<n % 32768>> \o Big(n \div 32768)

RECURSIVE Val(_)
Val(b) == IF b = <<>> THEN 0 ELSE Head(b) + 32768 * Val(Tail(b))

RECURSIVE Trim(_)
\* b without its leading zeros
Trim(b) ==
    IF b = <<>> \/ b[Len(b)] # 0 THEN b ELSE Trim(SubSeq(b, 1, Len(b) - 1))

RECURSIVE CmpFrom(_, _, _)
\* a against b, both of the same length, from digit j down: -1, 0 or 1
CmpFrom(a, b, j) ==
    IF j = 0 THEN 0
    ELSE IF a[j] # b[j] THEN (IF a[j] > b[j] THEN 1 ELSE -1)
    ELSE CmpFrom(a, b, j - 1)

\* a against b: -1, 0 or 1
Cmp(a, b) ==
    IF Len(a) # Len(b) THEN (IF Len(a) > Len(b) THEN 1 ELSE -1)
    ELSE CmpFrom(a, b, Len(a))

RECURSIVE AddC(_, _, _)
\* a + b + c for a carry c
AddC(a, b, c) ==
    IF a = <<>> /\ b = <<>> THEN (IF c = 0 THEN <<>> ELSE <<c>>)
    ELSE LET x == IF a = <<>> THEN 0 ELSE Head(a)
             y == IF b = <<>> THEN 0 ELSE Head(b)
         IN  <<(x + y + c) % 32768>>
                \o AddC(IF a = <<>> THEN a ELSE Tail(a),
                        IF b = <<>> THEN b ELSE Tail(b), (x + y + c) \div 32768)

Add(a, b) == AddC(a, b, 0)

RECURSIVE SubB(_, _, _)
\* a - b - c for a borrow c, where a >= b + c
SubB(a, b, c) ==
    IF a = <<>> THEN <<>>
    ELSE LET y == IF b = <<>> THEN 0 ELSE Head(b)
             t == Head(a) - y - c
         IN  <<(t + 32768) % 32768>>
                \o SubB(Tail(a), IF b = <<>> THEN b ELSE Tail(b),
                        IF t < 0 THEN 1 ELSE 0)

Sub(a, b) == Trim(SubB(a, b, 0))

RECURSIVE MulC(_, _, _)
\* a * f + c for a factor 0 < f < 32768 and a carry c < f
MulC(a, f, c) ==
    IF a = <<>> THEN (IF c = 0 THEN <<>> ELSE <<c>>)
    ELSE <<(Head(a) * f + c) % 32768>>
            \o MulC(Tail(a), f, (Head(a) * f + c) \div 32768)

MulSmall(a, f) == IF f = 0 THEN <<>> ELSE MulC(a, f, 0)

\* the p with 2^p <= n < 2^(p+1), for 1 <= n < 32768
Log2Floor(n) == CHOOSE p \in 0..14 : 2 ^ p <= n /\ n < 2 ^ (p + 1)

\* b * 2^s
Shl(b, s) ==
    IF b = <<>> THEN <<>>
    ELSE [j \in 1..(s \div 15) |-> 0] \o MulSmall(b, 2 ^ (s % 15))

\* the number of binary digits of b
BitLen(b) ==
    IF b = <<>> THEN 0 ELSE 15 * (Len(b) - 1) + Log2Floor(b[Len(b)]) + 1

\* A guess at the next quotient digit of r by d, for r < 32768 * d and a d
\* whose top digit is at least 16384: the top two digits of r by the top
\* digit of d give the digit or at most two more.
Digit(r, d) ==
    Min((IF Len(r) > Len(d) THEN r[Len(r)] * 32768 + r[Len(r) - 1]
         ELSE IF Len(r) = Len(d) THEN r[Len(r)] ELSE 0) \div d[Len(d)], 32767)

RECURSIVE Settle(_, _, _, _)
\* the quotient digit f of r by d and what is left, from a guess est that
\* is not too low and p = d * est
Settle(r, d, est, p) ==
    IF Cmp(p, r) <= 0 THEN [f |-> est, rem |-> Sub(r, p)]
    ELSE Settle(r, d, est - 1, Sub(p, d))

RECURSIVE DivFrom(_, _, _, _, _)
RECURSIVE DivStep(_, _, _, _, _)
RECURSIVE DivNext(_, _, _, _, _)
\* long division of the digits j .. 1 of n by d: rem is what is left of the
\* digits above j and acc the quotient digits found for them
DivFrom(n, d, j, rem, acc) ==
    IF j = 0 THEN [q |-> Trim(acc), r |-> rem, den |-> d]
    ELSE DivStep(n, d, j, Trim(<<n[j]>> \o rem), acc)

\* the digit j of the quotient, for r1 the remainder with digit j of n
DivStep(n, d, j, r1, acc) ==
    DivNext(n, d, j, Settle(r1, d, Digit(r1, d), MulSmall(d, Digit(r1, d))), acc)

DivNext(n, d, j, x, acc) ==
    IF x.f = 0 THEN DivFrom(n, d, j - 1, x.rem, <<0>> \o acc)
    ELSE DivFrom(n, d, j - 1, x.rem, <<x.f>> \o acc)

\* quotient q and remainder r of num by den, a den whose top digit is at
\* least 16384; the division starts below the top digits of num that are
\* fewer than den's
DivNorm(num, den) ==
    IF Len(num) < Len(den) THEN [q |-> <<>>, r |-> num, den |-> den]
    ELSE DivFrom(num, den, Len(num) - Len(den) + 1,
                 SubSeq(num, Len(num) - Len(den) + 2, Len(num)), <<>>)

\* the binary places to add to d * 2^ds for a top digit of 16384 or more
Pad(d, ds) == (15 - ((BitLen(d) + ds) % 15)) % 15

\* Quotient q of n * 2^ns by d * 2^ds for d > 0, with the remainder r and
\* the divisor den, both times 2^Pad(d, ds).
DivMod(n, ns, d, ds) ==
    DivNorm(Shl(n, ns + Pad(d, ds)), Shl(d, ds + Pad(d, ds)))

\* a division x is nearer to the quotient above than to its own: more than
\* half of the divisor is left, or just half and the quotient is odd
Above(half, q) == half > 0 \/ (half = 0 /\ q # <<>> /\ q[1] % 2 = 1)

RoundsUp(x) == Above(Cmp(Shl(x.r, 1), x.den), x.q)

\* the quotient of a division x to nearest, a tie to even, as the float
\* [m, e] that stands for m * 2^e, for a division scaled by 2^s
Rounded(x, s) ==
    [m |-> IF RoundsUp(x) THEN Add(x.q, <<1>>) ELSE x.q, e |-> -s]

\* the p with 2^p <= n * 2^sh / d < 2^(p+1), from the guess L
Exp2(n, d, sh, L) ==
    IF Cmp(Shl(n, Max(sh - L, 0)), Shl(d, Max(L - sh, 0))) >= 0 THEN L
    ELSE L - 1

\* n * 2^sh / d with 53 binary digits, rounded, for the binary exponent p
Scaled(n, d, sh, p) ==
    Rounded(DivMod(n, Max(52 - p + sh, 0), d, Max(p - 52 - sh, 0)), 52 - p)

\* The double nearest to n * 2^sh / d for d > 0, a tie going to the even
\* mantissa: 2^52 <= m < 2^53 (or m = 2^53 after a carry); the result is 0
\* or a normal number.
Nearest(n, d, sh) ==
    IF n = <<>> THEN [m |-> <<>>, e |-> 0]
    ELSE Scaled(n, d, sh, Exp2(n, d, sh, BitLen(n) + sh - BitLen(d)))

\* the float of the integer n
Float(n) == [m |-> Big(n), e |-> 0]

\* x / y on floats; a division by 0.0 raises
FDiv(x, y) ==
    IF y.m = <<>> THEN [exc |-> "ZeroDivisionError"]
    ELSE Nearest(x.m, y.m, x.e - y.e)

\* x * c on floats, for an integer 0 < c < 32768
FMul(x, c) == Nearest(MulSmall(x.m, c), <<1>>, x.e)

\* x * 2^p on floats: nothing is rounded
FScale(x, p) == [m |-> x.m, e |-> x.e + p]

\* int(x): the fraction is cut off
int(x) == Val(DivMod(x.m, Max(x.e, 0), <<1>>, Max(-x.e, 0)).q)

\* the quotient of a division h to nearest, a tie to even
Hundredths(h) == IF RoundsUp(h) THEN Val(h.q) + 1 ELSE Val(h.q)

\* round(x, 2) in hundredths: the hundredth nearest to the exact value of
\* x, the even one when that value is a half
round2(x) ==
    Hundredths(DivMod(MulSmall(x.m, 100), Max(x.e, 0), <<1>>, Max(-x.e, 0)))

\* the float of a time of us microseconds
Seconds(us) == FDiv(Float(us), Float(1000000))

\* int(t * 1000) for the float t of us microseconds.  Off a whole
\* millisecond the float product cannot reach the next integer.
int_ms(us) ==
    IF us % 1000 # 0 \/ us = 0 THEN us \div 1000
    ELSE int(FMul(Seconds(us), 1000))

\* round(size / t * 8 / 1_000_000, 2) for the float t of us microseconds, in
\* hundredths: each division rounds to a float
round_Mbps_float(size, us) ==
    round2(FDiv(FScale(FDiv(Float(size), Seconds(us)), 3), Float(1000000)))

(***************************************************************************)
(* Latency: get_ping and filter_ips_by_ping                                *)
(***************************************************************************)
\* what ping3.ping(ip, timeout=max_ping/1000) does here: answer after rt,
\* give None once the timeout has passed, or raise (a False result, which
\* ping3 gives on an error, takes the same path as None in get_ping).
\* elapsed is the wall clock get_ping reads at line 235.
PingResponses(max_ping) ==
    {r \in {[kind |-> "reply", rt |-> 10400, elapsed |-> 10500],
            [kind |-> "reply", rt |-> 30900, elapsed |-> 31000]} :
        r.rt <= max_ping * 1000}
    \cup {[kind |-> "None", rt |-> 0, elapsed |-> max_ping * 1000 + 500],
          [kind |-> "None", rt |-> 0, elapsed |-> (max_ping + 1) * 1000 + 200],
          [kind |-> "raise", rt |-> 0, elapsed |-> 0]}

\* the message of the RuntimeError of line 225
CapabilityError == "Ping functionality unavailable. Install the ping3 library."

\* the call that is made when ping3 could not be imported: no probe is sent
NoProbe == [kind |-> "unavailable", rt |-> 0, elapsed |-> 0]

\* get_ping: exc is the RuntimeError of line 225, val the returned int.
\* Both times are floats of seconds and int() cuts the float product by
\* 1000; the clock difference of line 235 is taken as the float of elapsed.
get_ping(avail, r) ==
    IF ~avail THEN [exc |-> TRUE, val |-> 0]
    ELSE IF r.kind = "raise" THEN [exc |-> FALSE, val |-> -1]
    ELSE IF r.kind = "reply" /\ r.rt > 0
         THEN [exc |-> FALSE, val |-> int_ms(r.rt)]
         ELSE [exc |-> FALSE, val |-> int_ms(r.elapsed)]

\* the filter without its upper limit
Eligible_unbounded(ping_time, max_ping) == ping_time > 0

\* the filter of line 308
Eligible(ping_time, max_ping) == ping_time > 0 /\ ping_time <= max_ping

RECURSIVE InsertByPing(_, _)
\* x goes after every entry whose ping is not larger: list.sort is stable
InsertByPing(x, s) ==
    IF s = <<>> THEN <<x>>
    ELSE IF x.ping < Head(s).ping THEN <<x>> \o s
    ELSE <<Head(s)>> \o InsertByPing(x, Tail(s))

\* the list left as it was appended to
SortByPing_unsorted(s) == s

RECURSIVE SortByPing(_)
\* ip_ping_results.sort(key=lambda x: x[1])
SortByPing(s) ==
    IF s = <<>> THEN <<>>
    ELSE InsertByPing(s[Len(s)], SortByPing(SubSeq(s, 1, Len(s) - 1)))

\* Python's s[:n], n of any sign
Slice(s, n) ==
    LET stop == IF n < 0 THEN Max(Len(s) + n, 0) ELSE Min(n, Len(s))
    IN  SubSeq(s, 1, stop)

\* the return value of filter_ips_by_ping
TopByPing(results, max_ips) == Slice(SortByPing(results), max_ips)

(***************************************************************************)
(* Regions: fetch_cloudflare_colo_data, get_colo_from_ip,                  *)
(* get_region_from_colo                                                    *)
(***************************************************************************)
\* rows of DC-Colos.csv as csv.DictReader gives them
ColoTable ==
    <<[colo |-> "LHR", region |-> Europe],
      [colo |-> "SJC", region |-> North_America_raw],
      [colo |-> "NRT", region |-> Asia_Pacific_raw],
      [colo |-> "LHR", region |-> North_America_raw]>>

\* what requests.get of the table can do: fail, or deliver a body
FetchResponses ==
    {[kind |-> "RequestException", rows |-> <<>>],
     [kind |-> "ok", rows |-> <<>>],
     [kind |-> "ok", rows |-> ColoTable]}

\* fetch_cloudflare_colo_data
fetch_cloudflare_colo_data(r) ==
    IF r.kind = "RequestException" THEN <<>> ELSE r.rows

\* what the trace request can do: fail with a RequestException, raise
\* something else, or deliver a body; a body line "a=b" is <<"a", "b">>
ColoResponses ==
    {[kind |-> "RequestException", body |-> <<>>],
     [kind |-> "ok", body |-> <<<<"fl", "29f1">>, <<"loc", "GB">>>>],
     [kind |-> "ok", body |-> <<<<"fl", "29f1">>, <<"colo", "LHR">>>>],
     [kind |-> "ok", body |-> <<<<"colo", "SJC">>, <<"colo", "LHR">>>>]}

RECURSIVE first_colo(_)
\* the loop of lines 195-198: the first line that starts with "colo="
first_colo(body) ==
    IF body = <<>> THEN None
    ELSE IF Len(Head(body)) >= 2 /\ Head(body)[1] = "colo"
         THEN Str(Head(body)[2])
         ELSE first_colo(Tail(body))

\* get_colo_from_ip: exc is an exception that is no RequestException
get_colo_from_ip(r) ==
    IF r.kind = "raise" THEN [exc |-> TRUE, val |-> None]
    ELSE IF r.kind = "RequestException" THEN [exc |-> FALSE, val |-> None]
    ELSE [exc |-> FALSE, val |-> first_colo(r.body)]

\* row.get('region', 'Unknown'): a row of a table without a region column
\* has no such key
region_of_row(row) == IF "region" \in DOMAIN row THEN row.region ELSE Unknown

RECURSIVE get_region_from_colo_last(_, _)
\* the region of the last row of the table with this colo
get_region_from_colo_last(colo, data) ==
    IF data = <<>> THEN Unknown
    ELSE IF data[Len(data)].colo = colo
         THEN replace_spaces(region_of_row(data[Len(data)]))
         ELSE get_region_from_colo_last(colo, SubSeq(data, 1, Len(data) - 1))

RECURSIVE get_region_from_colo(_, _)
\* the region of the first row of the table with this colo
get_region_from_colo(colo, data) ==
    IF data = <<>> THEN Unknown
    ELSE IF Head(data).colo = colo THEN replace_spaces(region_of_row(Head(data)))
    ELSE get_region_from_colo(colo, Tail(data))

(***************************************************************************)
(* Throughput: get_download_speed, get_upload_speed                        *)
(***************************************************************************)
\* round(size / time * 8 / 1_000_000, 2), in hundredths of a Mbps, for a time
\* of us microseconds.  Off a decimal half the floats are far closer to the
\* exact quotient than the quotient is to the half (sizes below 2^31 / 800),
\* so the nearest hundredth is the result; at a half, and for larger sizes,
\* the floats decide.
round_Mbps(size, us) ==
    IF size > 2684354 THEN round_Mbps_float(size, us)
    ELSE LET q == (size * 800) \div us
             r == (size * 800) % us
         IN  IF r < us - r THEN q
             ELSE IF r > us - r THEN q + 1
             ELSE round_Mbps_float(size, us)

\* what a transfer can do: complete after elapsed microseconds, fail with a
\* RequestException, or raise something else
DownloadResponses ==
    {[kind |-> "ok", elapsed |-> 1000000],
     [kind |-> "ok", elapsed |-> 2000000],
     [kind |-> "RequestException", elapsed |-> 0],
     [kind |-> "raise", elapsed |-> 0]}

UploadResponses ==
    {[kind |-> "ok", elapsed |-> 2000000],
     [kind |-> "RequestException", elapsed |-> 0]}

\* round(size / time * 8 / 1_000_000, 2), in hundredths of a Mbps; a zero
\* time is a ZeroDivisionError
Mbps(size, r) ==
    IF r.kind = "RequestException" THEN [exc |-> FALSE, val |-> 0]
    ELSE IF r.kind = "raise" \/ r.elapsed = 0 THEN [exc |-> TRUE, val |-> 0]
    ELSE [exc |-> FALSE, val |-> round_Mbps(size, r.elapsed)]

get_download_speed(test_size, r) == Mbps(test_size * 1024, r)

get_upload_speed(test_size, r) == Mbps(test_size * 1024, r)

(***************************************************************************)
(* run_tests: the body of the detailed loop (lines 344-377)                *)
(***************************************************************************)
\* one record of the probe history
Event(op, at, res, val) == [op |-> op, at |-> at, res |-> res, val |-> val]

\* IPPerformanceMetrics
IPPerformanceMetrics(ip, region, ping, upload_speed, download_speed) ==
    [ip |-> ip, region |-> region, ping |-> ping,
     upload_speed |-> upload_speed, download_speed |-> download_speed]

\* the threshold test with "and" for "or"
BelowThresholds_and(download_speed, upload_speed, cfg) ==
    download_speed < cfg.min_download_speed /\ upload_speed < cfg.min_upload_speed

\* the threshold test of line 363: TRUE when the candidate is dropped
BelowThresholds(download_speed, upload_speed, cfg) ==
    download_speed < cfg.min_download_speed \/ upload_speed < cfg.min_upload_speed

\* the loop body with the three probes issued before any test of the region
TestCandidate_eager(entry, at, c, d, u, cfg, data) ==
    LET colo == get_colo_from_ip(c)
        dl == get_download_speed(cfg.test_size, d)
        ul == get_upload_speed(cfg.test_size, u)
        e3 == <<Event("get_colo_from_ip", at, c.kind, 0),
                Event("get_download_speed", at, d.kind, dl.val),
                Event("get_upload_speed", at, u.kind, ul.val)>>
        region == get_region_from_colo(colo.val.s, data)
    IN  IF colo.exc \/ dl.exc \/ ul.exc
        THEN [events |-> e3, fate |-> "exception", metrics |-> <<>>]
        ELSE IF ~Truthy(colo.val)
        THEN [events |-> e3, fate |-> "no colo", metrics |-> <<>>]
        ELSE IF region \notin Range(cfg.regions)
        THEN [events |-> e3, fate |-> "region", metrics |-> <<>>]
        ELSE IF BelowThresholds(dl.val, ul.val, cfg)
        THEN [events |-> e3, fate |-> "speed", metrics |-> <<>>]
        ELSE [events |-> e3, fate |-> "accepted",
              metrics |-> <<IPPerformanceMetrics(entry.ip, region, entry.ping,
                                                  ul.val, dl.val)>>]

\* the loop body with the download speed tested before the upload probe
TestCandidate_shortcut(entry, at, c, d, u, cfg, data) ==
    LET colo == get_colo_from_ip(c)
        e1 == <<Event("get_colo_from_ip", at, c.kind, 0)>>
    IN  IF colo.exc
        THEN [events |-> e1, fate |-> "exception", metrics |-> <<>>]
        ELSE IF ~Truthy(colo.val)
        THEN [events |-> e1, fate |-> "no colo", metrics |-> <<>>]
        ELSE LET region == get_region_from_colo(colo.val.s, data)
             IN  IF region \notin Range(cfg.regions)
                 THEN [events |-> e1, fate |-> "region", metrics |-> <<>>]
                 ELSE
    LET dl == get_download_speed(cfg.test_size, d)
        e2 == e1 \o <<Event("get_download_speed", at, d.kind, dl.val)>>
    IN  IF dl.exc
        THEN [events |-> e2, fate |-> "exception", metrics |-> <<>>]
        ELSE IF dl.val < cfg.min_download_speed
        THEN [events |-> e2, fate |-> "speed", metrics |-> <<>>]
        ELSE
    LET ul == get_upload_speed(cfg.test_size, u)
        e3 == e2 \o <<Event("get_upload_speed", at, u.kind, ul.val)>>
    IN  IF ul.exc
        THEN [events |-> e3, fate |-> "exception", metrics |-> <<>>]
        ELSE IF BelowThresholds(dl.val, ul.val, cfg)
        THEN [events |-> e3, fate |-> "speed", metrics |-> <<>>]
        ELSE [events |-> e3, fate |-> "accepted",
              metrics |-> <<IPPerformanceMetrics(entry.ip, region, entry.ping,
                                                  ul.val, dl.val)>>]

\* One pass of the loop body for the ranked entry at index `at`, given the
\* responses c, d, u the three probes get if they are issued.  events are
\* the probes issued, in order; metrics is what is appended to the result.
TestCandidate(entry, at, c, d, u, cfg, data) ==
    LET colo == get_colo_from_ip(c)
        e1 == <<Event("get_colo_from_ip", at, c.kind, 0)>>
    IN  IF colo.exc
        THEN [events |-> e1, fate |-> "exception", metrics |-> <<>>]
        ELSE IF ~Truthy(colo.val)
        THEN [events |-> e1, fate |-> "no colo", metrics |-> <<>>]
        ELSE LET region == get_region_from_colo(colo.val.s, data)
             IN  IF region \notin Range(cfg.regions)
                 THEN [events |-> e1, fate |-> "region", metrics |-> <<>>]
                 ELSE
    LET dl == get_download_speed(cfg.test_size, d)
        e2 == e1 \o <<Event("get_download_speed", at, d.kind, dl.val)>>
    IN  IF dl.exc
        THEN [events |-> e2, fate |-> "exception", metrics |-> <<>>]
        ELSE
    LET ul == get_upload_speed(cfg.test_size, u)
        e3 == e2 \o <<Event("get_upload_speed", at, u.kind, ul.val)>>
    IN  IF ul.exc
        THEN [events |-> e3, fate |-> "exception", metrics |-> <<>>]
        ELSE IF BelowThresholds(dl.val, ul.val, cfg)
        THEN [events |-> e3, fate |-> "speed", metrics |-> <<>>]
        ELSE [events |-> e3, fate |-> "accepted",
              metrics |-> <<IPPerformanceMetrics(entry.ip, region, entry.ping,
                                                  ul.val, dl.val)>>]

(***************************************************************************)
(* State                                                                   *)
(***************************************************************************)
\* regions when config.ini has no regions option: the default of line 81
DefaultRegions == <<Europe_default, Asia_Pacific>>

\* regions when config.ini has "regions = Europe, Asia_Pacific": split on
\* the commas and stripped (lines 116-117)
ConfiguredRegions == <<Europe, Asia_Pacific>>

\* the configurations explored (config.ini, lines 76-83); speeds in
\* hundredths of a Mbps
Configs ==
    {c \in [max_ips : {-1, 0, 1, 2},
            max_ping : {100},
            test_size : {1024},
            min_download_speed : {0, 500},
            min_upload_speed : {200},
            regions : {ConfiguredRegions, DefaultRegions}] :
        /\ c.min_download_speed = 500 \/ c.max_ips = 1
        /\ c.regions = DefaultRegions =>
              (c.max_ips = 1 /\ c.min_download_speed = 500)}

RECURSIVE SeqsUpTo(_, _)
\* the sequences over S of length at most n
SeqsUpTo(S, n) ==
    IF n = 0 THEN {<<>>}
    ELSE LET shorter == SeqsUpTo(S, n - 1)
         IN  shorter \cup {Append(q, x) : q \in {t \in shorter : Len(t) = n - 1}, x \in S}

Files == SeqsUpTo(FileLines, MaxPool)

\* the environment answers each probe freely
Free == [on |-> FALSE, fetch |-> [kind |-> "ok", rows |-> <<>>], resp |-> <<>>]

NoPrev == [pc |-> "", failure |-> "", successful_ips |-> <<>>, order |-> <<>>,
           ranked |-> <<>>]

\* the responses a probe of ip can get
PingEnv(ip) ==
    IF ~PING_AVAILABLE THEN {NoProbe}
    ELSE IF frozen.on THEN {frozen.resp[ip].ping}
    ELSE PingResponses(config.max_ping)
ColoEnv(ip) == IF frozen.on THEN {frozen.resp[ip].colo} ELSE ColoResponses
DownloadEnv(ip) == IF frozen.on THEN {frozen.resp[ip].download} ELSE DownloadResponses
UploadEnv(ip) == IF frozen.on THEN {frozen.resp[ip].upload} ELSE UploadResponses
FetchEnv == IF frozen.on THEN {frozen.fetch} ELSE FetchResponses

\* config.output_file before it is ever written
Absent == [exists |-> FALSE, lines |-> <<>>]

\* no call of get_region_from_colo on its own
NoLookup == [colo |-> "", before |-> <<>>, data |-> <<>>, done |-> FALSE,
             region |-> <<>>]

\* main has entered run_tests and nothing else
Entered ==
    /\ main = "run_tests"
    /\ output = Absent
    /\ lookup = NoLookup

\* the state of a run before run_tests is entered
Fresh ==
    /\ pc = "read"
    /\ failure = ""
    /\ ip_list = <<>>
    /\ order = <<>>
    /\ i = 1
    /\ ip_ping_results = <<>>
    /\ ranked = <<>>
    /\ colo_data = <<>>
    /\ k = 1
    /\ successful_ips = <<>>
    /\ fates = <<>>
    /\ log = <<>>

\* every configuration with ping3 present, one with ping3 missing
Init ==
    /\ PING_AVAILABLE \in BOOLEAN
    /\ config \in Configs
    /\ ~PING_AVAILABLE => (config.max_ips = 2 /\ config.min_download_speed = 500)
    /\ file \in Files
    /\ frozen = Free
    /\ run = 1
    /\ prev = NoPrev
    /\ Fresh
    /\ Entered

(***************************************************************************)
(* run_tests, step by step                                                 *)
(***************************************************************************)
\* the messages of the exceptions that end run_tests
ReadFailure == "Failed to read 'ip_list'"
RankFailure == "No IPs passed the ping filter."
FetchFailure == "Critical error: Failed to fetch Cloudflare colo data."

\* run_tests with the region table fetched at the start, before the pool is
\* probed
ReadIps_prefetch ==
    /\ pc = "read"
    /\ LET got == read_ips(file)
       IN  IF got.exc
           THEN /\ pc' = "failed"
                /\ failure' = ReadFailure
                /\ UNCHANGED <<ip_list, order, log, colo_data>>
           ELSE \E p \in Shuffles(Len(got.val)), r \in FetchEnv :
                /\ ip_list' = [j \in 1..Len(got.val) |-> got.val[p[j]]]
                /\ order' = p
                /\ pc' = "ping"
                /\ colo_data' = fetch_cloudflare_colo_data(r)
                /\ log' = Append(log, Event("fetch_cloudflare_colo_data", 0, r.kind, 0))
                /\ UNCHANGED failure
    /\ UNCHANGED <<main, output, lookup, PING_AVAILABLE, config, file, frozen, run, prev, i,
                   ip_ping_results, ranked, k, successful_ips, fates>>

\* lines 324-328: read the file and shuffle the list
ReadIps ==
    /\ pc = "read"
    /\ LET got == read_ips(file)
       IN  IF got.exc
           THEN /\ pc' = "failed"
                /\ failure' = ReadFailure
                /\ UNCHANGED <<ip_list, order>>
           ELSE \E p \in Shuffles(Len(got.val)) :
                /\ ip_list' = [j \in 1..Len(got.val) |-> got.val[p[j]]]
                /\ order' = p
                /\ pc' = "ping"
                /\ UNCHANGED failure
    /\ UNCHANGED <<main, output, lookup, PING_AVAILABLE, config, file, frozen, run, prev, i,
                   ip_ping_results, ranked, colo_data, k, successful_ips,
                   fates, log>>

\* the loop of filter_ips_by_ping waiting without end for a probe that
\* raises instead of going on to the next entry
PingStep_stall ==
    /\ pc = "ping"
    /\ \E r \in PingEnv(ip_list[i]) :
        LET got == get_ping(PING_AVAILABLE, r)
        IN  IF r.kind = "raise"
            THEN UNCHANGED <<log, ip_ping_results, i, pc>>
            ELSE /\ log' = Append(log, Event("get_ping", i, r.kind, got.val))
                 /\ ip_ping_results' =
                       IF ~got.exc /\ Eligible(got.val, config.max_ping)
                       THEN Append(ip_ping_results,
                                   [ip |-> ip_list[i], ping |-> got.val, pos |-> i])
                       ELSE ip_ping_results
                 /\ i' = i + 1
                 /\ pc' = IF i = Len(ip_list) THEN "rank" ELSE "ping"
    /\ UNCHANGED <<main, output, lookup, PING_AVAILABLE, config, file, frozen, run, prev, failure,
                   ip_list, order, ranked, colo_data, k, successful_ips, fates>>

\* the loop of filter_ips_by_ping with a second attempt for a probe that
\* gave no latency above 0
PingStep_retry ==
    /\ pc = "ping"
    /\ \E r, r2 \in PingEnv(ip_list[i]) :
        LET first == get_ping(PING_AVAILABLE, r)
            again == first.exc \/ first.val <= 0
            got == IF again THEN get_ping(PING_AVAILABLE, r2) ELSE first
        IN  /\ log' = log \o <<Event("get_ping", i, r.kind, first.val)>>
                          \o (IF again
                              THEN <<Event("get_ping", i, r2.kind, got.val)>>
                              ELSE <<>>)
            /\ ip_ping_results' =
                  IF ~got.exc /\ Eligible(got.val, config.max_ping)
                  THEN Append(ip_ping_results,
                              [ip |-> ip_list[i], ping |-> got.val, pos |-> i])
                  ELSE ip_ping_results
    /\ i' = i + 1
    /\ pc' = IF i = Len(ip_list) THEN "rank" ELSE "ping"
    /\ UNCHANGED <<main, output, lookup, PING_AVAILABLE, config, file, frozen, run, prev, failure,
                   ip_list, order, ranked, colo_data, k, successful_ips, fates>>

\* the loop of filter_ips_by_ping without its try/except: the RuntimeError
\* of get_ping ends the run
PingStep_uncaught ==
    /\ pc = "ping"
    /\ \E r \in PingEnv(ip_list[i]) :
        LET got == get_ping(PING_AVAILABLE, r)
        IN  /\ log' = Append(log, Event("get_ping", i, r.kind, got.val))
            /\ ip_ping_results' =
                  IF ~got.exc /\ Eligible(got.val, config.max_ping)
                  THEN Append(ip_ping_results,
                              [ip |-> ip_list[i], ping |-> got.val, pos |-> i])
                  ELSE ip_ping_results
            /\ IF got.exc
               THEN pc' = "failed" /\ failure' = CapabilityError
               ELSE /\ pc' = IF i = Len(ip_list) THEN "rank" ELSE "ping"
                    /\ UNCHANGED failure
    /\ i' = i + 1
    /\ UNCHANGED <<main, output, lookup, PING_AVAILABLE, config, file, frozen, run, prev,
                   ip_list, order, ranked, colo_data, k, successful_ips, fates>>

\* lines 305-311: one pass of the loop of filter_ips_by_ping
PingStep ==
    /\ pc = "ping"
    /\ \E r \in PingEnv(ip_list[i]) :
        LET got == get_ping(PING_AVAILABLE, r)
        IN  /\ log' = Append(log, Event("get_ping", i, r.kind, got.val))
            /\ ip_ping_results' =
                  IF ~got.exc /\ Eligible(got.val, config.max_ping)
                  THEN Append(ip_ping_results,
                              [ip |-> ip_list[i], ping |-> got.val, pos |-> i])
                  ELSE ip_ping_results
    /\ i' = i + 1
    /\ pc' = IF i = Len(ip_list) THEN "rank" ELSE "ping"
    /\ UNCHANGED <<main, output, lookup, PING_AVAILABLE, config, file, frozen, run, prev, failure,
                   ip_list, order, ranked, colo_data, k, successful_ips, fates>>

\* the ranking without the test for an empty ranked set
RankStep_unchecked ==
    /\ pc = "rank"
    /\ ranked' = TopByPing(ip_ping_results, config.max_ips)
    /\ pc' = "fetch"
    /\ UNCHANGED <<main, output, lookup, PING_AVAILABLE, config, file, frozen, run, prev, failure,
                   ip_list, order, i, ip_ping_results, colo_data, k,
                   successful_ips, fates, log>>

\* lines 313-315 and 332-334: sort, cut, and give up on an empty ranked set
RankStep ==
    /\ pc = "rank"
    /\ ranked' = TopByPing(ip_ping_results, config.max_ips)
    /\ IF ranked' = <<>>
       THEN pc' = "failed" /\ failure' = RankFailure
       ELSE pc' = "fetch" /\ UNCHANGED failure
    /\ UNCHANGED <<main, output, lookup, PING_AVAILABLE, config, file, frozen, run, prev, ip_list,
                   order, i, ip_ping_results, colo_data, k, successful_ips,
                   fates, log>>

\* lines 338-343: fetch the region table, give up on an empty one
FetchStep ==
    /\ pc = "fetch"
    /\ \E r \in FetchEnv :
        /\ colo_data' = fetch_cloudflare_colo_data(r)
        /\ log' = Append(log, Event("fetch_cloudflare_colo_data", 0, r.kind, 0))
    /\ IF colo_data' = <<>>
       THEN /\ pc' = "failed"
            /\ failure' = FetchFailure
       ELSE pc' = "test" /\ UNCHANGED failure
    /\ successful_ips' = <<>>
    /\ UNCHANGED <<main, output, lookup, PING_AVAILABLE, config, file, frozen, run, prev, ip_list,
                   order, i, ip_ping_results, ranked, k, fates>>

\* the detailed loop with the newest record put first in the result list
TestStep_newest_first ==
    /\ pc = "test"
    /\ \E c \in ColoEnv(ranked[k].ip), d \in DownloadEnv(ranked[k].ip),
          u \in UploadEnv(ranked[k].ip) :
        LET out == TestCandidate(ranked[k], k, c, d, u, config, colo_data)
        IN  /\ log' = log \o out.events
            /\ fates' = Append(fates, out.fate)
            /\ successful_ips' = out.metrics \o successful_ips
    /\ k' = k + 1
    /\ pc' = IF k = Len(ranked) THEN "returned" ELSE "test"
    /\ UNCHANGED <<main, output, lookup, PING_AVAILABLE, config, file, frozen, run, prev, failure,
                   ip_list, order, i, ip_ping_results, ranked, colo_data>>

\* lines 344-379: one pass of the detailed loop; the return after the last
TestStep ==
    /\ pc = "test"
    /\ \E c \in ColoEnv(ranked[k].ip), d \in DownloadEnv(ranked[k].ip),
          u \in UploadEnv(ranked[k].ip) :
        LET out == TestCandidate(ranked[k], k, c, d, u, config, colo_data)
        IN  /\ log' = log \o out.events
            /\ fates' = Append(fates, out.fate)
            /\ successful_ips' = successful_ips \o out.metrics
    /\ k' = k + 1
    /\ pc' = IF k = Len(ranked) THEN "returned" ELSE "test"
    /\ UNCHANGED <<main, output, lookup, PING_AVAILABLE, config, file, frozen, run, prev, failure,
                   ip_list, order, i, ip_ping_results, ranked, colo_data>>

Next == ReadIps \/ PingStep \/ RankStep \/ FetchStep \/ TestStep

Spec == Init /\ [][Next]_vars

(***************************************************************************)
(* Two runs against the same frozen responses                              *)
(***************************************************************************)
\* the frozen environments explored: one response per IP and probe
FrozenResponses ==
    [ping : {r \in PingResponses(100) : r.kind = "reply"},
     colo : {r \in ColoResponses : r.kind = "ok" /\ first_colo(r.body) # None},
     download : {r \in DownloadResponses : r.kind = "ok"},
     upload : {r \in UploadResponses : r.kind = "ok"}]

Frozen ==
    {[on |-> TRUE, fetch |-> [kind |-> "ok", rows |-> ColoTable], resp |-> f] :
        f \in [IPs -> FrozenResponses]}

InitRerun ==
    /\ PING_AVAILABLE = TRUE
    /\ config \in {c \in Configs : c.max_ips \in {1, 2} /\ c.min_download_speed = 500}
    /\ file \in Files
    /\ frozen \in Frozen
    /\ run = 1
    /\ prev = NoPrev
    /\ Fresh
    /\ Entered

\* run_tests is entered again: same file, same configuration, same responses
Rerun ==
    /\ pc \in {"returned", "failed"}
    /\ frozen.on
    /\ run = 1
    /\ run' = 2
    /\ prev' = [pc |-> pc, failure |-> failure, successful_ips |-> successful_ips,
                order |-> order, ranked |-> ranked]
    /\ pc' = "read"
    /\ failure' = ""
    /\ ip_list' = <<>>
    /\ order' = <<>>
    /\ i' = 1
    /\ ip_ping_results' = <<>>
    /\ ranked' = <<>>
    /\ colo_data' = <<>>
    /\ k' = 1
    /\ successful_ips' = <<>>
    /\ fates' = <<>>
    /\ log' = <<>>
    /\ UNCHANGED <<main, output, lookup, PING_AVAILABLE, config, file, frozen>>

NextRerun == Next \/ Rerun

SpecRerun == InitRerun /\ [][NextRerun]_vars

(***************************************************************************)
(* main and export_results                                                 *)
(***************************************************************************)
RECURSIVE Join(_)
\* the Python string of a sequence of one-character strings
Join(chars) == IF chars = <<>> THEN "" ELSE Head(chars) \o Join(Tail(chars))

\* f"{x:.2f}" of a speed held in hundredths of a Mbps
Fmt2(c) ==
    ToString(c \div 100) \o "." \o ToString((c % 100) \div 10) \o ToString(c % 10)

\* IPPerformanceMetrics.to_csv_row
to_csv_row(m) ==
    <<m.ip, Join(m.region), ToString(m.ping), Fmt2(m.upload_speed),
      Fmt2(m.download_speed)>>

\* the header row export_results writes first
Header == <<"IP", "Region", "Ping (ms)", "Upload (Mbps)", "Download (Mbps)">>

\* the message of the IOError export_results raises
ExportFailure == "Critical error: Failed to export results"

\* the steps of export_results that can raise: 0 is open(output_file, 'w'),
\* 1 the header row, 1 + j the row of results[j]; Len(results) + 2 is a
\* call in which nothing raises
ExportFailures(results) == 0 .. Len(results) + 2

\* export_results under the failure point fail: open(..., 'w') truncates
\* the file, every writerow adds a line, and the with block closes the file
\* with the lines written before the exception
export_results(results, old, fail) ==
    LET all == <<Header>> \o [j \in 1..Len(results) |-> to_csv_row(results[j])]
    IN  IF fail = 0 THEN [exc |-> TRUE, file |-> old]
        ELSE IF fail <= Len(all)
        THEN [exc |-> TRUE,
              file |-> [exists |-> TRUE, lines |-> SubSeq(all, 1, fail - 1)]]
        ELSE [exc |-> FALSE, file |-> [exists |-> TRUE, lines |-> all]]

\* main when export_results is attempted after a failed run too
MainRaise_export ==
    /\ main = "run_tests"
    /\ pc = "failed"
    /\ \E fail \in ExportFailures(successful_ips) :
        LET out == export_results(successful_ips, output, fail)
        IN  /\ output' = out.file
            /\ log' = Append(log, Event("export_results", 0,
                                        IF out.exc THEN "IOError" ELSE "ok",
                                        Len(successful_ips)))
    /\ main' = "raised"
    /\ UNCHANGED <<lookup, PING_AVAILABLE, config, file, frozen, run, prev, pc,
                   failure, ip_list, order, i, ip_ping_results, ranked,
                   colo_data, k, successful_ips, fates>>

\* main, lines 415-417: run_tests raised; the exception is logged and
\* raised again, export_results is not reached
MainRaise ==
    /\ main = "run_tests"
    /\ pc = "failed"
    /\ main' = "raised"
    /\ UNCHANGED <<output, lookup, PING_AVAILABLE, config, file, frozen, run,
                   prev, pc, failure, ip_list, order, i, ip_ping_results,
                   ranked, colo_data, k, successful_ips, fates, log>>

\* main, lines 407-414: run_tests returned; export_results is called with
\* the result list, and its IOError is logged and raised again
Export ==
    /\ main = "run_tests"
    /\ pc = "returned"
    /\ \E fail \in ExportFailures(successful_ips) :
        LET out == export_results(successful_ips, output, fail)
        IN  /\ output' = out.file
            /\ main' = IF out.exc THEN "raised" ELSE "done"
            /\ failure' = IF out.exc THEN ExportFailure ELSE failure
            /\ log' = Append(log, Event("export_results", 0,
                                        IF out.exc THEN "IOError" ELSE "ok",
                                        Len(successful_ips)))
    /\ UNCHANGED <<lookup, PING_AVAILABLE, config, file, frozen, run, prev, pc,
                   ip_list, order, i, ip_ping_results, ranked, colo_data, k,
                   successful_ips, fates>>

\* the responses of a candidate that answers every probe and is accepted
Healthy ==
    [ping |-> [kind |-> "reply", rt |-> 10400, elapsed |-> 10500],
     colo |-> [kind |-> "ok", body |-> <<<<"fl", "29f1">>, <<"colo", "LHR">>>>],
     download |-> [kind |-> "ok", elapsed |-> 1000000],
     upload |-> [kind |-> "ok", elapsed |-> 2000000]]

\* the environments main is run in: one response per IP and probe, where
\* at most one probe of an IP is slower than Healthy, fails or raises
MainResponses ==
    {f \in [ping : {r \in PingResponses(100) : r.elapsed # 100500},
            colo : {r \in ColoResponses : r.kind = "RequestException"} \cup {Healthy.colo},
            download : DownloadResponses,
            upload : UploadResponses] :
        Cardinality({p \in {"ping", "colo", "download", "upload"} : f[p] # Healthy[p]}) <= 1}

MainEnvs ==
    {[on |-> TRUE, fetch |-> t, resp |-> f] :
        t \in {r \in FetchResponses : r.kind = "RequestException" \/ r.rows # <<>>},
        f \in [IPs -> MainResponses]}

InitMain ==
    /\ PING_AVAILABLE = TRUE
    /\ config \in {c \in Configs : c.max_ips = 2 /\ c.min_download_speed = 500}
    /\ file \in Files
    /\ frozen \in MainEnvs
    /\ run = 1
    /\ prev = NoPrev
    /\ Fresh
    /\ Entered

NextMain == Next \/ MainRaise \/ Export

SpecMain == InitMain /\ [][NextMain]_vars

\* every call main makes returns or raises: no step waits forever
SpecMainFair == SpecMain /\ WF_vars(NextMain)

(***************************************************************************)
(* get_region_from_colo on its own                                         *)
(***************************************************************************)
MaxTable == 3

\* a region name with more than one space
Padded == <<" ", "S", " ">>

\* location codes asked for: in the table, in another case, not in it
LookupCodes == {"LHR", "lhr", "SJC", "XXX"}

\* rows a table is made of
LookupRows ==
    {[colo |-> "LHR", region |-> Padded],
     [colo |-> "LHR", region |-> North_America_raw],
     [colo |-> "lhr", region |-> Asia_Pacific_raw],
     [colo |-> "SJC", region |-> Europe],
     [colo |-> "SJC"]}

Tables == SeqsUpTo(LookupRows, MaxTable)

InitRegion ==
    /\ PING_AVAILABLE = TRUE
    /\ config \in {c \in Configs : c.max_ips = 2 /\ c.min_download_speed = 500}
    /\ file = <<>>
    /\ frozen = Free
    /\ run = 1
    /\ prev = NoPrev
    /\ Fresh
    /\ main = "run_tests"
    /\ output = Absent
    /\ lookup \in {[colo |-> c, before |-> <<>>, data |-> t, done |-> FALSE,
                      region |-> <<>>] : c \in LookupCodes, t \in Tables}

\* one call of get_region_from_colo(colo, colo_data); before is the table
\* as it was when the call was made
Lookup ==
    /\ ~lookup.done
    /\ lookup' = [colo |-> lookup.colo,
                  before |-> lookup.data,
                  data |-> lookup.data,
                  done |-> TRUE,
                  region |-> get_region_from_colo(lookup.colo, lookup.data)]
    /\ UNCHANGED <<PING_AVAILABLE, config, file, frozen, run, prev, pc, failure,
                   ip_list, order, i, ip_ping_results, ranked, colo_data, k,
                   successful_ips, fates, log, main, output>>

NextRegion == Lookup

SpecRegion == InitRegion /\ [][NextRegion]_vars

(***************************************************************************)
(* Properties                                                              *)
(***************************************************************************)
Done == pc \in {"returned", "failed"}

\* the probe history, by kind of call
Calls(op) == {j \in DOMAIN log : log[j].op = op}
PingAt(pos) == log[CHOOSE j \in Calls("get_ping") : log[j].at = pos]
\* the calls made for the ranked entry at index at, in the order made
CallsFor(at) ==
    SelectSeq(log, LAMBDA e : e.at = at /\ e.op \in {"get_colo_from_ip",
                                  "get_download_speed", "get_upload_speed"})

\* C1: every record of the result list has 0 < ping <= max_ping, a region
\* among the desired regions, a download speed >= min_download_speed and
\* an upload speed >= min_upload_speed, all four at once.
C1_AcceptedMeetAll ==
    \A j \in DOMAIN successful_ips :
        LET m == successful_ips[j]
        IN  /\ m.ping > 0
            /\ m.ping <= config.max_ping
            /\ \E r \in DOMAIN config.regions : config.regions[r] = m.region
            /\ m.download_speed >= config.min_download_speed
            /\ m.upload_speed >= config.min_upload_speed

\* a run returned a record while another ranked candidate, whose download
\* was too slow and whose upload was fast enough, was dropped
C1_Witness ==
    /\ pc = "returned"
    /\ successful_ips # <<>>
    /\ \E at \in DOMAIN fates :
        /\ fates[at] = "speed"
        /\ CallsFor(at)[2].val < config.min_download_speed
        /\ CallsFor(at)[3].val >= config.min_upload_speed

\* C2: a ranked candidate whose region probe gave no location code, or
\* whose region is not desired, gets no later probe: its only call is the
\* region probe, and no download or upload probe is ever issued for it.
C2_ShortCircuit ==
    \A at \in DOMAIN fates :
        fates[at] \in {"no colo", "region"} =>
            /\ Len(CallsFor(at)) = 1
            /\ CallsFor(at)[1].op = "get_colo_from_ip"

\* the run is over, one candidate was dropped at the region stage and
\* throughput was measured for another
C2_Witness ==
    /\ pc = "returned"
    /\ \E a, b \in DOMAIN fates :
        /\ fates[a] \in {"no colo", "region"}
        /\ fates[b] \in {"speed", "accepted"}
        /\ Len(CallsFor(b)) = 3

\* C3: no valid candidate, an empty ranked set and an empty region table
\* each end run_tests with an error, before any region, download or upload
\* probe is issued, and without a result list.
C3_RunLevelAbort ==
    /\ (pc # "read" /\ read_ips(file).exc) => (pc = "failed" /\ failure = ReadFailure)
    /\ (pc \in {"fetch", "test", "returned"}) => ranked # <<>>
    /\ (pc \in {"test", "returned"}) => colo_data # <<>>
    /\ pc = "failed" =>
        /\ failure \in {ReadFailure, RankFailure, FetchFailure}
        /\ failure = RankFailure => ranked = <<>>
        /\ failure = FetchFailure => colo_data = <<>>
        /\ Calls("get_colo_from_ip") = {}
        /\ Calls("get_download_speed") = {}
        /\ Calls("get_upload_speed") = {}
        /\ successful_ips = <<>>
        /\ fates = <<>>

\* the run failed on the region table after two candidates were ranked
C3_Witness ==
    /\ pc = "failed"
    /\ failure = FetchFailure
    /\ Len(ranked) = 2
    /\ log[Len(log)].res = "RequestException"

\* C4: when the latency probe gets no response in time or fails with a
\* transport error, get_ping returns a value that is not > 0, so a
\* candidate that did not answer is never eligible for the ranked set.
C4_FailureSentinel ==
    /\ \A j \in Calls("get_ping") :
        log[j].res \in {"None", "False", "raise"} => ~(log[j].val > 0)
    /\ \A j \in DOMAIN ip_ping_results :
        PingAt(ip_ping_results[j].pos).res = "reply"

\* C5: the list filter_ips_by_ping returns holds no candidate whose
\* measured latency is <= 0 or > max_ping.
C5_RankedWithinLimits ==
    \A j \in DOMAIN ranked :
        /\ ranked[j].ping = PingAt(ranked[j].pos).val
        /\ ranked[j].ip = ip_list[ranked[j].pos]
        /\ ~(ranked[j].ping <= 0)
        /\ ~(ranked[j].ping > config.max_ping)

\* a candidate was ranked while one probe came back above max_ping
C5_Witness ==
    /\ ranked # <<>>
    /\ \E j \in Calls("get_ping") : log[j].val > config.max_ping

\* filter_ips_by_ping has returned
Ranked ==
    \/ pc \in {"fetch", "test", "returned"}
    \/ pc = "failed" /\ failure \in {RankFailure, FetchFailure}

\* the number of candidates whose measured latency passes the filter
PassingCount ==
    Cardinality({j \in Calls("get_ping") :
        /\ log[j].res # "unavailable"
        /\ log[j].val > 0
        /\ log[j].val <= config.max_ping})

\* the eligible results that are not in the ranked set
LeftOut ==
    {e \in Range(ip_ping_results) : \A j \in DOMAIN ranked : ranked[j].pos # e.pos}

\* the ranked set is made of eligible results, in non-decreasing latency,
\* and nothing left out is faster than something kept
SortedCut ==
    /\ \A j \in DOMAIN ranked : ranked[j] \in Range(ip_ping_results)
    /\ \A a, b \in DOMAIN ranked : a < b => ranked[a].ping <= ranked[b].ping
    /\ \A e \in LeftOut : \A j \in DOMAIN ranked : ranked[j].ping <= e.ping

\* every latency probe of the run was answered
AllAnswered == \A j \in Calls("get_ping") : log[j].res = "reply"

\* C6 as stated: the ranked set is the eligible results sorted by latency
\* and cut to max_ips entries, of size exactly min(max_ips, number of
\* candidates passing the latency filter) (stated for the runs in which
\* every probe was answered).
C6_SizeIsMin ==
    (Ranked /\ AllAnswered) =>
              /\ SortedCut
              /\ Len(ranked) = Min(config.max_ips, PassingCount)

\* C6 (amended): the ranked set is the eligible results sorted by latency
\* and cut as the slice [:max_ips] cuts: of size min(max_ips, passing) when
\* max_ips >= 0, and of size max(0, passing + max_ips) when max_ips < 0.
C6_SizeIsSlice ==
    Ranked => /\ SortedCut
              /\ Len(ranked) = IF config.max_ips >= 0
                               THEN Min(config.max_ips, PassingCount)
                               ELSE Max(PassingCount + config.max_ips, 0)

\* max_ips = 1 kept the faster of two eligible candidates
C6_Witness ==
    /\ Ranked
    /\ config.max_ips = 1
    /\ Len(ranked) = 1
    /\ \E e \in LeftOut : e.ping > ranked[1].ping

\* the eligible results arranged as the file lists their candidates
InFileOrder ==
    [n \in DOMAIN ip_ping_results |->
        CHOOSE e \in Range(ip_ping_results) :
            Cardinality({f \in Range(ip_ping_results) :
                            order[f.pos] < order[e.pos]}) = n - 1]

\* what the caller sees of a ranked set: the (ip, ping) pairs
Observed(s) == [j \in DOMAIN s |-> <<s[j].ip, s[j].ping>>]

\* C7: candidates of equal latency are ranked in the order of the file, and
\* of a tie across the cut the one earlier in the file is kept: the ranked
\* set is the stable sort and cut of the results in file order (stated for
\* max_ips >= 1 and the runs in which every probe was answered).  The
\* shuffle of line 326 breaks it: the sort is stable in the shuffled order.
C7_TiesInFileOrder ==
    (Ranked /\ AllAnswered /\ config.max_ips >= 1) =>
        Observed(ranked) = Observed(TopByPing(InFileOrder, config.max_ips))

\* the second run ended as the first did
SameOutcome ==
    /\ pc = prev.pc
    /\ failure = prev.failure
    /\ successful_ips = prev.successful_ips

\* C8: two runs with the same candidate list, configuration and frozen
\* probe responses return identical result lists.  The shuffle of line 326
\* breaks it: tied candidates are ranked differently from run to run.
C8_Idempotent == (run = 2 /\ Done) => SameOutcome

\* C9: with PING_AVAILABLE false the run fails with the capability error,
\* reported once and not once per candidate.
C9_CapabilityReportedOnce ==
    ~PING_AVAILABLE =>
        /\ Cardinality({j \in Calls("get_ping") : log[j].res = "unavailable"}) <= 1
        /\ (Done /\ ~read_ips(file).exc) => (pc = "failed" /\ failure = CapabilityError)

\* a per-candidate error has happened in this run
ErrorSeen ==
    \/ \E j \in Calls("get_ping") : log[j].res \in {"None", "False", "raise"}
    \/ \E at \in DOMAIN fates : fates[at] # "accepted"

\* whatever failed, every entry of the pool is probed once and every entry
\* of the ranked set goes through the loop body
AllProcessed ==
    /\ pc = "ping" => Cardinality(Calls("get_ping")) = i - 1
    /\ (pc \in {"rank", "fetch", "test", "returned"} \/ (pc = "failed" /\ failure # ReadFailure)) =>
        \A pos \in DOMAIN ip_list :
            Cardinality({j \in Calls("get_ping") : log[j].at = pos}) = 1
    /\ pc = "test" => Len(fates) = k - 1
    /\ pc = "returned" =>
        /\ Len(fates) = Len(ranked)
        /\ \A at \in DOMAIN ranked : CallsFor(at) # <<>>

\* C10 as stated: after a per-candidate error every remaining candidate is
\* still processed and run_tests still returns a result list (stated for
\* max_ips >= 1, where the cut alone cannot empty the ranked set).
C10_ErrorsNeverAbort ==
    /\ AllProcessed
    /\ (ErrorSeen /\ Done /\ config.max_ips >= 1) => pc = "returned"

\* C10 (amended): after a per-candidate error every remaining candidate is
\* still processed, and run_tests returns a result list unless the ranked
\* set or the region table is empty; no error in the detailed loop ends
\* the run.
C10_ErrorsAbortOnlyRunLevel ==
    /\ AllProcessed
    /\ fates # <<>> => pc \in {"test", "returned"}
    /\ (ErrorSeen /\ Done /\ pc # "returned") =>
        \/ failure = RankFailure /\ ranked = <<>>
        \/ failure = FetchFailure /\ colo_data = <<>>

\* a probe was not answered, the first ranked candidate raised in its
\* download, and the second one was still tested and accepted
C10_Witness ==
    /\ pc = "returned"
    /\ \E j \in Calls("get_ping") : log[j].res # "reply"
    /\ fates = <<"exception", "accepted">>

\* a throughput probe of the ranked entry at index at failed: the call
\* caught a RequestException and returned 0.0
ProbeFailed(at) ==
    \E j \in DOMAIN CallsFor(at) :
        /\ CallsFor(at)[j].op \in {"get_download_speed", "get_upload_speed"}
        /\ CallsFor(at)[j].res = "RequestException"
        /\ CallsFor(at)[j].val = 0

\* C11: whatever min_download_speed and min_upload_speed are, a candidate
\* whose download probe or upload probe failed (returned 0.0) has no
\* metrics recorded and is never in the result list (stated for the runs
\* in which every latency probe was answered).
C11_FailedProbeSkipped ==
    AllAnswered =>
        /\ \A at \in DOMAIN fates : ProbeFailed(at) => fates[at] # "accepted"
        /\ \A j \in DOMAIN successful_ips :
            /\ successful_ips[j].download_speed # 0
            /\ successful_ips[j].upload_speed # 0

\* C12: when run_tests ends in a fatal error (no valid candidate, an empty
\* ranked set, an empty region table), export_results is never called and
\* the output file is neither created nor written.
C12_NoExportAfterFatal ==
    pc = "failed" =>
        /\ failure \in {ReadFailure, RankFailure, FetchFailure}
        /\ Calls("export_results") = {}
        /\ output = Absent
        /\ main \in {"run_tests", "raised"}

\* main has raised again the error of a run that found no candidate fast
\* enough, and there is no output file
C12_Witness ==
    /\ main = "raised"
    /\ pc = "failed"
    /\ failure = RankFailure
    /\ ~output.exists

\* the number of calls of op made for the entry at index at
Attempts(op, at) == Cardinality({j \in Calls(op) : log[j].at = at})

\* the latency stage of this run has gone through the whole pool
PoolProbed ==
    \/ pc \in {"rank", "fetch", "test", "returned"}
    \/ pc = "failed" /\ failure # ReadFailure

\* C13: no network operation is attempted twice in a run: the region table
\* is fetched at most once, every entry of the pool gets exactly one
\* get_ping call (none before its turn, one from then on), every ranked
\* entry gets at most one region, one download and one upload probe, and
\* no probe is issued for anything but these entries.
C13_SingleAttempt ==
    /\ Cardinality(Calls("fetch_cloudflare_colo_data")) <= 1
    /\ \A j \in Calls("get_ping") : log[j].at \in DOMAIN ip_list
    /\ \A pos \in DOMAIN ip_list :
        Attempts("get_ping", pos) = IF PoolProbed \/ (pc = "ping" /\ pos < i) THEN 1 ELSE 0
    /\ \A op \in {"get_colo_from_ip", "get_download_speed", "get_upload_speed"} :
        /\ \A j \in Calls(op) : log[j].at \in DOMAIN ranked
        /\ \A at \in DOMAIN ranked : Attempts(op, at) <= 1

\* a run is over in which a latency probe got no answer, the table fetch
\* failed or a throughput probe failed, and every one of them was issued
\* once
C13_Witness ==
    /\ Done
    /\ Len(ip_list) = MaxPool
    /\ \E j \in Calls("get_ping") : log[j].res \in {"None", "raise"}
    /\ \/ \E j \in Calls("fetch_cloudflare_colo_data") : log[j].res = "RequestException"
       \/ \E j \in Calls("get_download_speed") : log[j].res = "RequestException"

\* the indexes of the ranked entries accepted so far, ascending
AcceptedAt == SelectSeq([at \in DOMAIN fates |-> at], LAMBDA at : fates[at] = "accepted")

\* the result list is the accepted ranked entries in the order of the ranked
\* set, each with the latency its probe returned during ranking
SubsequenceOfRanked ==
    /\ Len(successful_ips) = Len(AcceptedAt)
    /\ \A j \in DOMAIN successful_ips :
        LET entry == ranked[AcceptedAt[j]]
        IN  /\ successful_ips[j].ip = entry.ip
            /\ successful_ips[j].ping = entry.ping
            /\ successful_ips[j].ping = PingAt(entry.pos).val
    /\ \A a, b \in DOMAIN successful_ips :
        a < b => successful_ips[a].ping <= successful_ips[b].ping

\* C14 as stated: the returned result list is a subsequence of the ranked
\* set (same relative order, latencies non-decreasing), holds at most
\* max_ips records, and each record carries the latency measured during
\* ranking (stated for the runs in which every latency probe was answered;
\* a max_ips below 0 is read as no record at all).
C14_AtMostMaxIps ==
    (pc = "returned" /\ AllAnswered) =>
        /\ SubsequenceOfRanked
        /\ Len(successful_ips) <= Max(0, config.max_ips)

\* C14 (amended): the result list is a subsequence of the ranked set (same
\* relative order, latencies non-decreasing), each record carries the
\* latency measured during ranking, and it holds at most as many records
\* as the ranked set: at most max_ips when max_ips >= 0, and at most
\* max(0, number passing the latency filter + max_ips) when max_ips < 0.
C14_SubsequenceOfRanked ==
    /\ SubsequenceOfRanked
    /\ Len(successful_ips) <= Len(ranked)
    /\ Len(successful_ips) <=
          IF config.max_ips >= 0 THEN config.max_ips
          ELSE Max(0, Len(ip_ping_results) + config.max_ips)

\* two candidates with different latencies were both accepted and returned
C14_Witness ==
    /\ pc = "returned"
    /\ Len(successful_ips) = 2
    /\ successful_ips[1].ping < successful_ips[2].ping
    /\ successful_ips[1].ip # successful_ips[2].ip

\* C15: get_region_from_colo returns the region of the first row whose
\* location code equals the given code exactly (case-sensitive), with
\* every space replaced by "_", and "Unknown" when no row matches (or when
\* that row has no region column); the table is the same after the call.
C15_FirstExactMatch ==
    lookup.done =>
        LET hits == {j \in DOMAIN lookup.before : lookup.before[j].colo = lookup.colo}
        IN  /\ lookup.data = lookup.before
            /\ IF hits = {} THEN lookup.region = <<"U">>
               ELSE LET first == CHOOSE j \in hits : \A h \in hits : j <= h
                        row == lookup.before[first]
                        raw == IF "region" \in DOMAIN row THEN row.region ELSE <<"U">>
                    IN  /\ Len(lookup.region) = Len(raw)
                        /\ \A p \in DOMAIN raw :
                            lookup.region[p] = IF raw[p] = " " THEN "_" ELSE raw[p]

\* a code that two rows with different regions carry was looked up, the
\* first of them has a name with two spaces, and a row that differs from
\* the code in case only comes before both
C15_Witness ==
    /\ lookup.done
    /\ lookup.colo = "LHR"
    /\ lookup.region = <<"_", "S", "_">>
    /\ lookup.data = <<[colo |-> "lhr", region |-> <<"A", " ", "P">>],
                       [colo |-> "LHR", region |-> <<" ", "S", " ">>],
                       [colo |-> "LHR", region |-> <<"N", " ", "A">>]>>

\* main is over: export_results completed after every ranked candidate was
\* accepted or rejected, or a fatal error was raised again by main
Terminated ==
    \/ /\ main = "done"
       /\ pc = "returned"
       /\ Len(fates) = Len(ranked)
       /\ \E j \in Calls("export_results") : log[j].res = "ok"
    \/ /\ main = "raised"
       /\ failure \in {ReadFailure, RankFailure, FetchFailure, ExportFailure}

\* C16: every run terminates: whatever the pool and the probe outcomes,
\* main eventually reaches a completed export of the result list, after
\* each ranked candidate was accepted or rejected, or a fatal error.
C16_Terminates == <>Terminated

\* main completed the export of a run in which a latency probe raised and
\* a ranked candidate was rejected for its speed
C16_Witness ==
    /\ main = "done"
    /\ \E j \in Calls("get_ping") : log[j].res = "raise"
    /\ fates = <<"speed">>

\* C17: export is all-or-nothing: after an export_results call that failed
\* (at the open, at the header or at any row) the output file holds no row
\* of this run, and after one that succeeded it holds the header followed
\* by every result row.
C17_AllOrNothing ==
    \A j \in Calls("export_results") :
        IF log[j].res = "ok"
        THEN output.lines =
                <<Header>> \o [m \in DOMAIN successful_ips |-> to_csv_row(successful_ips[m])]
        ELSE \A l \in DOMAIN output.lines, m \in DOMAIN successful_ips :
                output.lines[l] # to_csv_row(successful_ips[m])

\* the ranked entry at index at got a location code whose region is desired
PassedRegionGate(at) ==
    /\ fates[at] \notin {"no colo", "region"}
    /\ CallsFor(at)[1].res = "ok"

\* C18: for every ranked candidate that passed the region gate the download
\* probe is the next call, and once that call has returned (a speed, or the
\* 0.0 of a failed transfer) the upload probe is issued whatever the value
\* is; the candidate is dropped for its speed, or accepted, only after
\* both probes have returned.
C18_UploadAfterAnyDownload ==
    \A at \in DOMAIN fates :
        LET calls == CallsFor(at)
        IN  /\ PassedRegionGate(at) =>
                /\ Len(calls) >= 2
                /\ calls[2].op = "get_download_speed"
                /\ calls[2].res \in {"ok", "RequestException"} =>
                    /\ Len(calls) = 3
                    /\ calls[3].op = "get_upload_speed"
            /\ fates[at] \in {"speed", "accepted"} =>
                /\ Len(calls) = 3
                /\ calls[3].res \in {"ok", "RequestException"}

\* the run is over; one candidate's download failed and another's was
\* below the threshold, and the upload probe was still issued for both
C18_Witness ==
    /\ pc = "returned"
    /\ \E a, b \in DOMAIN fates :
        /\ Len(CallsFor(a)) = 3
        /\ Len(CallsFor(b)) = 3
        /\ CallsFor(a)[2].res = "RequestException"
        /\ CallsFor(b)[2].res = "ok"
        /\ CallsFor(b)[2].val < config.min_download_speed
        /\ CallsFor(b)[3].op = "get_upload_speed"

\* every entry of the pool had its latency probe return before the call
\* logged at index j was issued
AllPingsBefore(j) ==
    \A pos \in DOMAIN ip_list :
        \E p \in Calls("get_ping") : p < j /\ log[p].at = pos

\* C19: the region table is fetched only after the latency probe of every
\* pool entry has returned and the ranked set is not empty; a run with an
\* empty ranked set fetches nothing; no region, download or upload probe
\* is issued before every latency probe has returned (nor before the
\* fetch).
C19_FetchAfterRanking ==
    /\ \A j \in Calls("fetch_cloudflare_colo_data") :
        /\ ranked # <<>>
        /\ AllPingsBefore(j)
    /\ (ranked = <<>> /\ Done) => Calls("fetch_cloudflare_colo_data") = {}
    /\ \A op \in {"get_colo_from_ip", "get_download_speed", "get_upload_speed"} :
        \A j \in Calls(op) :
            /\ AllPingsBefore(j)
            /\ \E f \in Calls("fetch_cloudflare_colo_data") : f < j

\* a run over a full pool, in which not every entry was ranked, fetched
\* the table and measured the throughput of a candidate
C19_Witness ==
    /\ pc = "returned"
    /\ Len(ip_list) = MaxPool
    /\ Len(ranked) < Len(ip_list)
    /\ Calls("fetch_cloudflare_colo_data") # {}
    /\ Calls("get_upload_speed") # {}

====
